---- MODULE Spec2Model ----
(***************************************************************************)
(* SecretAuction: the SecretAuction contract (confidential comparison of   *)
(* an encrypted bid with the reserve price) and the AuctionPage React      *)
(* component that drives one participant's bid through encryption,         *)
(* submission, the permission countdown and the decryption with retries.   *)
(*                                                                         *)
(* An async handler is modelled as one action per stretch of code between  *)
(* two awaits; a handler in flight is a record holding its position (pc)   *)
(* and its local variables.  Time is discrete: Tick is one second, every   *)
(* running setInterval timer fires once per second, a setTimeout of n      *)
(* seconds is due after n Ticks.                                           *)
(***************************************************************************)
EXTENDS Integers, Sequences, FiniteSets, TLC

\* ------------------------------------------------------------------ bounds
MaxEncrypt == 2      \* bids encrypted per run; the form is left alone after the last
MaxDec == 2          \* handleDecryptResult invocations in flight at once
MaxDecryptFailures == 4  \* rejected awaits of handleDecryptResult per run
MaxRebid == 3        \* bids encrypted per run of the page that bids again and again
MaxContractTx == 3   \* submitBid transactions per run of SpecContract

\* --------------------------------------------------------- program constants
RESERVE_PRICE == 1000
COUNTDOWN_START == 10
MAX_RETRY == 3
RETRY_BASE_WAIT == 10
\* demo guide: seconds of the race timeout and of the mock delay, and the
\* number of the guide's calculateMockResult
DEMO_TIMEOUT == 5
MOCK_DELAY == 2
SECRET_NUMBER == 888

Null == "null"
NaN == "NaN"
\* the null of the result state (results are numbers)
NoResult == -1
Contract == "SecretAuction"
Addresses == {"a1", "a2"}

VARIABLES
  \* SecretAuction contract storage and the FHE access-control list
  reservePrice, bidResults, hasBid, bidTimestamp, acl, blockTime,
  \* what the last read-only call of the contract gave its caller
  callReturn,
  \* wallet hooks and FHEVM state of AuctionPage
  address, walletClient, effectPending, fhevmInstance, isInitializing, initError,
  isInitializingRef, initInFlight, instancesCreated,
  \* bid state of AuctionPage
  bidAmount, isSubmitting, isDecrypting, hasBidSubmitted, canDecrypt,
  countdown, result, error,
  \* handlers in flight and timers
  sub, decs, timersActive, timersDue, encCount, failCount, ledgerCalls,
  \* seconds since the last ledger confirmation seen by the page (-1: none)
  sinceConfirm,
  \* keypairs generateKeypair has returned so far (the n-th keypair is n)
  keyCount,
  \* demo mode (demo guide): the mode flag, the browser's localStorage and the
  \* guide's handleSubmit / handleDecrypt in flight
  demoMode, localStorage, demo

storage == <<reservePrice, bidResults, hasBid, bidTimestamp, acl, blockTime>>
contractVars == <<storage, callReturn>>
initVars == <<address, walletClient, effectPending, fhevmInstance, isInitializing,
              initError, isInitializingRef, initInFlight, instancesCreated>>
bidVars == <<bidAmount, isSubmitting, isDecrypting, hasBidSubmitted, canDecrypt,
             countdown, result, error>>
counters == <<encCount, failCount>>
demoVars == <<demoMode, localStorage, demo>>
procVars == <<sub, decs, timersActive, timersDue, counters, ledgerCalls, sinceConfirm,
              keyCount, demoVars>>
vars == <<contractVars, initVars, bidVars, procVars>>

\* the account the wallet is connected with (useAccount().address)
Me == address

\* ------------------------------------------------- strings typed in the form
\* A string is a sequence of one-character strings.  The <input type="number">
\* hands the handler either "" or a valid floating-point number string.
DigitChars == <<"0", "1", "2", "3", "4", "5", "6", "7", "8", "9">>
IsDigit(c) == \E i \in 1..10 : DigitChars[i] = c
DigitVal(c) == (CHOOSE i \in 1..10 : DigitChars[i] = c) - 1

Inputs == { <<>>, <<"-", "5">>, <<"0", ".", "5">>, <<"9", "9", "9">>,
            <<"1", "0", "0", "0">> }

RECURSIVE LeadingDigits(_)
LeadingDigits(s) ==
  IF s = <<>> \/ ~IsDigit(Head(s)) THEN <<>>
  ELSE <<Head(s)>> \o LeadingDigits(Tail(s))

RECURSIVE DecVal(_)
DecVal(ds) ==
  IF ds = <<>> THEN 0 ELSE 10 * DecVal(SubSeq(ds, 1, Len(ds) - 1)) + DigitVal(ds[Len(ds)])

Drop(s, n) == SubSeq(s, n + 1, Len(s))
HasSign(s) == s # <<>> /\ Head(s) \in {"-", "+"}
SignOf(s) == IF s # <<>> /\ Head(s) = "-" THEN -1 ELSE 1
Unsigned(s) == IF HasSign(s) THEN Tail(s) ELSE s

\* parseInt(s): optional sign, then the leading decimal digits; NaN without one.
parseInt(s) ==
  LET ds == LeadingDigits(Unsigned(s))
  IN IF ds = <<>> THEN NaN ELSE SignOf(s) * DecVal(ds)

\* parseFloat(s): sign, integer digits, optional fraction, optional exponent.
\* The number is m * 10^e; NaN when there is neither an integer nor a fraction digit.
parseFloat(s) ==
  LET body == Unsigned(s)
      ip == LeadingDigits(body)
      r1 == Drop(body, Len(ip))
      fp == IF r1 # <<>> /\ Head(r1) = "." THEN LeadingDigits(Tail(r1)) ELSE <<>>
      r2 == IF r1 # <<>> /\ Head(r1) = "." THEN Drop(r1, 1 + Len(fp)) ELSE r1
      hasExp == r2 # <<>> /\ Head(r2) \in {"e", "E"}
                  /\ LeadingDigits(Unsigned(Tail(r2))) # <<>>
      ex == IF hasExp
            THEN SignOf(Tail(r2)) * DecVal(LeadingDigits(Unsigned(Tail(r2))))
            ELSE 0
  IN IF ip = <<>> /\ fp = <<>> THEN [nan |-> TRUE, m |-> 0, e |-> 0]
     ELSE [nan |-> FALSE, m |-> SignOf(s) * DecVal(ip \o fp), e |-> ex - Len(fp)]

\* x <= 0 for a parseFloat result (a comparison with NaN is false)
FloatLeqZero(f) == ~f.nan /\ f.m <= 0

\* !bidAmount || parseFloat(bidAmount) <= 0
BidRejected(s) == s = <<>> \/ FloatLeqZero(parseFloat(s))

\* ------------------------------------------------------ SecretAuction contract
\* An encrypted input made by the SDK for (contract, user): the handle carries
\* its plaintext, the user the proof binds it to, and a nonce; the proof names
\* the handle it proves.
EncryptedInput(v, user, n) ==
  LET h == [val |-> v, user |-> user, n |-> n]
  IN [handle |-> h, inputProof |-> [proves |-> h]]

\* FHE.fromExternal: the proof must be the handle's, made for msg.sender
fromExternal(handle, proof, sender) == proof.proves = handle /\ handle.user = sender

\* variant: the comparison without the eq half
CompareBidGtOnly(bid, reserve) == IF bid > reserve THEN 1 ELSE 0

\* steps 2-3 of submitBid: gt OR eq, then select(isSuccess, 1, 0)
CompareBid(bid, reserve) ==
  LET isGreater == bid > reserve
      isEqual == bid = reserve
      isSuccess == isGreater \/ isEqual
  IN IF isSuccess THEN 1 ELSE 0

\* variant: the result is allowed to every address
GranteesEveryone(sender) == Addresses \cup {Contract}

\* step 5 of submitBid: FHE.allowThis(result); FHE.allow(result, msg.sender)
Grantees(sender) == {Contract, sender}

\* variant: the has-bid flag is kept in one slot shared by all addresses
submitBidSharedFlag(sender, handle, proof) ==
  /\ fromExternal(handle, proof, sender)
  /\ LET res == [ct |-> handle, res |-> CompareBid(handle.val, reservePrice)]
     IN /\ bidResults' = [bidResults EXCEPT ![sender] = res]
        /\ hasBid' = [a \in Addresses |-> TRUE]
        /\ bidTimestamp' = [bidTimestamp EXCEPT ![sender] = blockTime + 1]
        /\ acl' = acl \cup {<<res, g>> : g \in Grantees(sender)}
  /\ blockTime' = blockTime + 1
  /\ UNCHANGED <<reservePrice, callReturn>>
submitBid(sender, handle, proof) ==
  /\ fromExternal(handle, proof, sender)
  /\ LET res == [ct |-> handle, res |-> CompareBid(handle.val, reservePrice)]
     IN /\ bidResults' = [bidResults EXCEPT ![sender] = res]
        /\ hasBid' = [hasBid EXCEPT ![sender] = TRUE]
        /\ bidTimestamp' = [bidTimestamp EXCEPT ![sender] = blockTime + 1]
        /\ acl' = acl \cup {<<res, g>> : g \in Grantees(sender)}
  /\ blockTime' = blockTime + 1
  /\ UNCHANGED <<reservePrice, callReturn>>

\* what a handler holds before encrypt() or getMyResult() has answered, and
\* the zero handle of an empty bidResults slot
NoInput == EncryptedInput(0, Null, 0)
NoHandle == [ct |-> NoInput.handle, res |-> 0]

\* variant: getMyResult without its require
getMyResultOkAlways(sender) == TRUE
\* getMyResult(): reverts unless the caller has bid
getMyResultOk(sender) == hasBid[sender]
getMyResult(sender) == bidResults[sender]

\* getBidTimestamp(user): reverts unless the user has bid
getBidTimestampOk(user) == hasBid[user]
getBidTimestamp(user) == bidTimestamp[user]

\* the reason string of both require statements
NoBidSubmitted == "No bid submitted"

\* the answer of a read-only call: a returned value or a revert with its reason
NoCall == [fn |-> "none", arg |-> Null, ok |-> FALSE, handle |-> NoHandle,
           time |-> 0, reason |-> ""]
Returned(fn, arg, handle, time) ==
  [fn |-> fn, arg |-> arg, ok |-> TRUE, handle |-> handle, time |-> time,
   reason |-> ""]
Reverted(fn, arg, reason) ==
  [fn |-> fn, arg |-> arg, ok |-> FALSE, handle |-> NoHandle, time |-> 0,
   reason |-> reason]

\* ------------------------------------------------------------- AuctionPage
\* calls: the contract.submitBid calls this invocation has made
IdleSub == [pc |-> "idle", val |-> 0, enc |-> NoInput, mined |-> FALSE, calls |-> 0]
\* keypair, sig: the keypair this invocation generated and the keypair its
\* signature authorises (0: none yet)
IdleDec == [pc |-> "idle", retryCount |-> 0, handle |-> NoHandle, wait |-> 0,
            keypair |-> 0, sig |-> 0]
Slots == 1..MaxDec

\* messages of the errors thrown by the wallet, the ledger and the relayer;
\* "" is an error without a message
SubmitErrors == {"", "transaction failed"}
DecryptErrors == {"", "Relayer responded with status 500", "user rejected signing"}
Messages500 == {"Relayer responded with status 500"}
\* e.message?.includes('500')
Includes500(m) == m \in Messages500
\* variant: the message is reported as it is, without the default text
MessageOrRaw(m, fallback) == m
\* e.message || fallback
MessageOr(m, fallback) == IF m = "" THEN fallback ELSE m
RetryingMessage(k) ==
  CASE k = 1 -> "Retrying... (1/3)"
    [] k = 2 -> "Retrying... (2/3)"
    [] OTHER -> "Retrying... (3/3)"

\* --- demo mode (demo guide): localStorage and the handlers' positions
\* the key `lastGuess_${userAddress}`
LastGuessKey(userAddress) == <<"lastGuess_", userAddress>>
StorageKeys == {LastGuessKey(a) : a \in Addresses}
\* localStorage.getItem gives null for a key that is not set
NoItem == [has |-> FALSE, val |-> <<>>]
Item(v) == [has |-> TRUE, val |-> v]
\* sub, pc: the positions of handleSubmit and handleDecrypt; value: the
\* plaintext handleSubmit holds; timeout, delay: seconds left of the race
\* timeout and of the mock delay; realPending: decryptPromise has not settled;
\* ended: how the last handleDecrypt ended (none, real, mock, error)
IdleDemo == [sub |-> "idle", pc |-> "idle", value |-> <<>>, handle |-> NoHandle,
             timeout |-> 0, delay |-> 0, realPending |-> FALSE, ended |-> "none"]

Init ==
  /\ reservePrice = RESERVE_PRICE
  /\ bidResults = [a \in Addresses |-> NoHandle]
  /\ hasBid = [a \in Addresses |-> FALSE]
  /\ bidTimestamp = [a \in Addresses |-> 0]
  /\ acl = {}
  /\ blockTime = 0
  /\ callReturn = NoCall
  /\ address = "a1"
  /\ walletClient = FALSE
  /\ effectPending = TRUE
  /\ fhevmInstance = FALSE
  /\ isInitializing = FALSE
  /\ initError = Null
  /\ isInitializingRef = FALSE
  /\ initInFlight = 0
  /\ instancesCreated = 0
  /\ bidAmount = <<>>
  /\ isSubmitting = FALSE
  /\ isDecrypting = FALSE
  /\ hasBidSubmitted = FALSE
  /\ canDecrypt = FALSE
  /\ countdown = 0
  /\ result = NoResult
  /\ error = Null
  /\ sub = IdleSub
  /\ decs = [i \in Slots |-> IdleDec]
  /\ timersActive = 0
  /\ timersDue = 0
  /\ encCount = 0
  /\ failCount = 0
  /\ ledgerCalls = {}
  /\ sinceConfirm = -1
  /\ keyCount = 0
  /\ demoMode = FALSE
  /\ localStorage = [k \in StorageKeys |-> NoItem]
  /\ demo = IdleDemo

\* the main auction interface is on screen (the wallet is connected throughout)
MainRendered == ~isInitializing /\ initError = Null

\* --- wallet and FHEVM initialisation
\* useWalletClient delivers the wallet client: a dependency of the effect changes
WalletClientReady ==
  /\ ~walletClient
  /\ walletClient' = TRUE
  /\ effectPending' = TRUE
  /\ UNCHANGED <<contractVars, address, fhevmInstance, isInitializing, initError,
                 isInitializingRef, initInFlight, instancesCreated, bidVars,
                 procVars>>

\* the effect returns at once, ignoring the flag that an initialisation runs
InitSkippedIgnoringRef == ~walletClient \/ fhevmInstance

\* the effect returns at once: no wallet client yet, an instance exists already,
\* or an initialisation is running (the wallet is connected throughout)
InitSkipped == ~walletClient \/ fhevmInstance \/ isInitializingRef

\* the effect body up to the first await of initFhevm; initInFlight counts the
\* invocations of initFhevm that have not settled
RunInitEffect ==
  /\ effectPending
  /\ effectPending' = FALSE
  /\ IF InitSkipped
     THEN UNCHANGED <<isInitializingRef, isInitializing, initError, initInFlight>>
     ELSE /\ isInitializingRef' = TRUE
          /\ isInitializing' = TRUE
          /\ initError' = Null
          /\ initInFlight' = initInFlight + 1
  /\ UNCHANGED <<contractVars, address, walletClient, fhevmInstance,
                 instancesCreated, bidVars, procVars>>

\* initSDK and createInstance resolved; instancesCreated counts the instances
\* createInstance has returned since the page was loaded
InitFhevmDone ==
  /\ initInFlight > 0
  /\ initInFlight' = initInFlight - 1
  /\ instancesCreated' = instancesCreated + 1
  /\ fhevmInstance' = TRUE
  /\ isInitializing' = FALSE
  /\ effectPending' = TRUE
  /\ UNCHANGED <<contractVars, address, walletClient, initError, isInitializingRef,
                 bidVars, procVars>>

\* initSDK or createInstance threw
InitFhevmFail(m) ==
  /\ initInFlight > 0
  /\ initInFlight' = initInFlight - 1
  /\ initError' = MessageOr(m, "Failed to initialize FHEVM")
  /\ isInitializingRef' = FALSE
  /\ isInitializing' = FALSE
  /\ UNCHANGED <<contractVars, address, walletClient, effectPending, fhevmInstance,
                 instancesCreated, bidVars, procVars>>

\* "Reload Page" on the initialisation error screen: the page starts afresh
ReloadPage ==
  /\ initError # Null
  /\ walletClient' = FALSE /\ effectPending' = TRUE /\ fhevmInstance' = FALSE
  /\ isInitializing' = FALSE /\ initError' = Null /\ isInitializingRef' = FALSE
  /\ initInFlight' = 0 /\ instancesCreated' = 0
  /\ bidAmount' = <<>> /\ isSubmitting' = FALSE /\ isDecrypting' = FALSE
  /\ hasBidSubmitted' = FALSE /\ canDecrypt' = FALSE /\ countdown' = 0
  /\ result' = NoResult /\ error' = Null
  /\ sub' = IdleSub /\ decs' = [i \in Slots |-> IdleDec]
  /\ timersActive' = 0 /\ timersDue' = 0
  /\ UNCHANGED <<contractVars, address, counters, ledgerCalls, sinceConfirm, keyCount,
                 demoVars>>

\* --- bid form
\* onChange of the bid input (rendered while !hasBidSubmitted, disabled while isSubmitting)
\* (the form is left alone once max bids were encrypted)
EnterBidWithin(s, max) ==
  /\ MainRendered /\ ~hasBidSubmitted /\ ~isSubmitting
  /\ s # bidAmount
  /\ encCount < max
  /\ bidAmount' = s
  /\ UNCHANGED <<contractVars, initVars, isSubmitting, isDecrypting, hasBidSubmitted,
                 canDecrypt, countdown, result, error, procVars>>

EnterBid(s) == EnterBidWithin(s, MaxEncrypt)

\* variant: the typed value is passed as it is, not the handle encrypt returned
SubmitArgsRaw(s) ==
  [encryptedBid |-> [val |-> s.val, user |-> Me, n |-> 0], proof |-> s.enc.inputProof]

\* the arguments handleSubmitBid passes to contract.submitBid
SubmitArgs(s) == [encryptedBid |-> s.enc.handle, proof |-> s.enc.inputProof]

\* handleSubmitBid accepts the click: all three early returns are passed
SubmitAccepted == fhevmInstance /\ walletClient /\ ~BidRejected(bidAmount)

\* click on "Submit Encrypted Bid": handleSubmitBid up to `await input.encrypt()`
ClickSubmitWithin(max) ==
  /\ MainRendered /\ ~hasBidSubmitted /\ ~isSubmitting /\ bidAmount # <<>>
  /\ SubmitAccepted => encCount < max
  /\ IF ~fhevmInstance \/ ~walletClient
     THEN /\ error' = "Please connect your wallet first"
          /\ UNCHANGED <<isSubmitting, sub>>
     ELSE IF BidRejected(bidAmount)
     THEN /\ error' = "Please enter a valid bid amount"
          /\ UNCHANGED <<isSubmitting, sub>>
     ELSE /\ isSubmitting' = TRUE
          /\ error' = Null
          /\ sub' = [IdleSub EXCEPT !.pc = "encrypt", !.val = parseInt(bidAmount)]
  /\ UNCHANGED <<contractVars, initVars, bidAmount, isDecrypting, hasBidSubmitted,
                 canDecrypt, countdown, result, decs, timersActive, timersDue,
                 counters, ledgerCalls, sinceConfirm, keyCount,
                 demoVars>>

ClickSubmit == ClickSubmitWithin(MaxEncrypt)

\* input.encrypt() resolved; next await: provider.getSigner()
EncryptDone ==
  /\ sub.pc = "encrypt"
  /\ encCount' = encCount + 1
  /\ sub' = [sub EXCEPT !.pc = "signer", !.enc = EncryptedInput(sub.val, Me, encCount + 1)]
  /\ UNCHANGED <<contractVars, initVars, bidVars, decs, timersActive, timersDue,
                 failCount, ledgerCalls, sinceConfirm, keyCount,
                 demoVars>>

\* getSigner() resolved; next await: contract.submitBid(handle, proof)
SubmitSignerDone ==
  /\ sub.pc = "signer"
  /\ sub' = [sub EXCEPT !.pc = "send"]
  /\ UNCHANGED <<contractVars, initVars, bidVars, decs, timersActive, timersDue,
                 counters, ledgerCalls, sinceConfirm, keyCount,
                 demoVars>>

\* contract.submitBid(handle, proof) resolved with the sent transaction; next await: tx.wait()
TxSent ==
  /\ sub.pc = "send"
  /\ ledgerCalls' = ledgerCalls \cup {SubmitArgs(sub)}
  /\ sub' = [sub EXCEPT !.pc = "wait", !.calls = @ + 1]
  /\ UNCHANGED <<contractVars, initVars, bidVars, decs, timersActive, timersDue,
                 counters, sinceConfirm, keyCount,
                 demoVars>>

\* the ledger executes the transaction: SecretAuction.submitBid runs
ChainMine ==
  /\ sub.pc = "wait" /\ ~sub.mined
  /\ submitBid(Me, SubmitArgs(sub).encryptedBid, SubmitArgs(sub).proof)
  /\ sub' = [sub EXCEPT !.mined = TRUE]
  /\ UNCHANGED <<initVars, bidVars, decs, timersActive, timersDue,
                 counters, ledgerCalls, sinceConfirm, keyCount,
                 demoVars>>

\* tx.wait() resolved: the rest of the try block and the finally
TxWaitDone ==
  /\ sub.pc = "wait" /\ sub.mined
  /\ hasBidSubmitted' = TRUE
  /\ bidAmount' = <<>>
  /\ countdown' = COUNTDOWN_START
  /\ timersActive' = timersActive + 1
  /\ isSubmitting' = FALSE
  /\ sub' = IdleSub
  /\ sinceConfirm' = 0
  /\ UNCHANGED <<contractVars, initVars, isDecrypting, canDecrypt, result, error,
                 decs, timersDue, counters, ledgerCalls, keyCount,
                 demoVars>>

\* variant: a rejected transaction is sent again instead of being reported
SubmitFailResend(m) ==
  /\ sub.pc \in {"encrypt", "signer", "send", "wait"} /\ ~sub.mined
  /\ error' = MessageOr(m, "Failed to submit bid")
  /\ IF sub.pc = "wait"
     THEN sub' = [sub EXCEPT !.pc = "send"] /\ UNCHANGED isSubmitting
     ELSE sub' = IdleSub /\ isSubmitting' = FALSE
  /\ UNCHANGED <<contractVars, initVars, bidAmount, isDecrypting, hasBidSubmitted,
                 canDecrypt, countdown, result, decs, timersActive, timersDue,
                 counters, ledgerCalls, sinceConfirm, keyCount,
                 demoVars>>

\* variant: a failure of encrypt is reported but the handler goes on
SubmitFailSkipsEncrypt(m) ==
  /\ sub.pc \in {"encrypt", "signer", "send", "wait"} /\ ~sub.mined
  /\ error' = MessageOr(m, "Failed to submit bid")
  /\ IF sub.pc = "encrypt"
     THEN sub' = [sub EXCEPT !.pc = "signer"] /\ UNCHANGED isSubmitting
     ELSE sub' = IdleSub /\ isSubmitting' = FALSE
  /\ UNCHANGED <<contractVars, initVars, bidAmount, isDecrypting, hasBidSubmitted,
                 canDecrypt, countdown, result, decs, timersActive, timersDue,
                 counters, ledgerCalls, sinceConfirm, keyCount,
                 demoVars>>

\* an await of handleSubmitBid rejected (a transaction that fails is never mined):
\* the catch and the finally
SubmitFail(m) ==
  /\ sub.pc \in {"encrypt", "signer", "send", "wait"} /\ ~sub.mined
  /\ error' = MessageOr(m, "Failed to submit bid")
  /\ isSubmitting' = FALSE
  /\ sub' = IdleSub
  /\ UNCHANGED <<contractVars, initVars, bidAmount, isDecrypting, hasBidSubmitted,
                 canDecrypt, countdown, result, decs, timersActive, timersDue,
                 counters, ledgerCalls, sinceConfirm, keyCount,
                 demoVars>>

\* --- countdown timer and time
\* the updater passed to setCountdown by the interval callback
CountdownStep(prev) == IF prev <= 1 THEN 0 ELSE prev - 1
CountdownExpired(prev) == prev <= 1

\* one callback of a running setInterval(…, 1000)
TimerFire ==
  /\ timersDue > 0
  /\ timersDue' = timersDue - 1
  /\ countdown' = CountdownStep(countdown)
  /\ IF CountdownExpired(countdown)
     THEN timersActive' = timersActive - 1 /\ canDecrypt' = TRUE
     ELSE UNCHANGED <<timersActive, canDecrypt>>
  /\ UNCHANGED <<contractVars, initVars, bidAmount, isSubmitting, isDecrypting,
                 hasBidSubmitted, result, error, sub, decs, counters, ledgerCalls,
                 sinceConfirm, keyCount,
                 demoVars>>

\* the remaining seconds of the backoff setTimeouts that are running
BackoffWaits == {decs[i].wait : i \in {j \in Slots : decs[j].pc = "backoff"}}
SetMin(S) == CHOOSE x \in S : \A y \in S : x <= y
\* a second is counted one by one while an interval runs or the page is within
\* COUNTDOWN_START seconds of a confirmation
CountingSeconds == timersActive > 0 \/ sinceConfirm \in 0..(COUNTDOWN_START - 1)
\* time advances to the next second that matters: by one second while seconds
\* are counted, else to the deadline of the earliest backoff setTimeout
TimeStep == IF CountingSeconds \/ BackoffWaits = {} THEN 1 ELSE SetMin(BackoffWaits)

\* time passes: every running interval becomes due once a second, every backoff
\* setTimeout comes closer to its deadline; callbacks that are due run first
Tick ==
  /\ timersDue = 0
  /\ 0 \notin BackoffWaits
  /\ CountingSeconds \/ BackoffWaits # {}
  /\ timersDue' = timersActive
  /\ decs' = [i \in Slots |->
                IF decs[i].pc = "backoff" THEN [decs[i] EXCEPT !.wait = @ - TimeStep]
                ELSE decs[i]]
  /\ sinceConfirm' = IF sinceConfirm \in 0..(COUNTDOWN_START - 1)
                     THEN sinceConfirm + 1 ELSE sinceConfirm
  /\ UNCHANGED <<contractVars, initVars, bidVars, sub, timersActive, counters, ledgerCalls,
                 keyCount,
                 demoVars>>

\* --- decryption
FreeSlot == CHOOSE i \in Slots : decs[i].pc = "idle" /\ \A j \in Slots : decs[j].pc = "idle" => i <= j

\* the "Decrypt Result" button is rendered and enabled
DecryptButtonEnabled == MainRendered /\ canDecrypt /\ result = NoResult /\ ~isDecrypting

\* click on "Decrypt Result": handleDecryptResult(0) up to `await provider.getSigner()`
ClickDecrypt ==
  /\ DecryptButtonEnabled
  /\ (fhevmInstance /\ walletClient) => \E i \in Slots : decs[i].pc = "idle"
  /\ IF ~fhevmInstance \/ ~walletClient
     THEN /\ error' = "Please connect your wallet first"
          /\ UNCHANGED <<isDecrypting, decs>>
     ELSE /\ isDecrypting' = TRUE
          /\ error' = Null
          /\ decs' = [decs EXCEPT ![FreeSlot] = [IdleDec EXCEPT !.pc = "signer"]]
  /\ UNCHANGED <<contractVars, initVars, bidAmount, isSubmitting, hasBidSubmitted,
                 canDecrypt, countdown, result, sub, timersActive, timersDue,
                 counters, ledgerCalls, sinceConfirm, keyCount,
                 demoVars>>

\* the wait of the retry branch of the catch block, in seconds
RetryWait(retryCount) == (retryCount + 1) * RETRY_BASE_WAIT
\* variant: one retry too many (<= instead of <)
ShouldRetryInclusive(m, retryCount) == Includes500(m) /\ retryCount <= MAX_RETRY
\* variant: every error is retried, whatever its message
ShouldRetryAnyMessage(m, retryCount) == retryCount < MAX_RETRY
\* the condition of the retry branch of the catch block
ShouldRetry(m, retryCount) == Includes500(m) /\ retryCount < MAX_RETRY

\* the catch block of handleDecryptResult and, unless it retries, the finally
DecryptCatch(i, m) ==
  IF ShouldRetry(m, decs[i].retryCount)
  THEN /\ error' = RetryingMessage(decs[i].retryCount + 1)
       /\ decs' = [decs EXCEPT ![i].pc = "backoff", ![i].wait = RetryWait(decs[i].retryCount),
                               ![i].handle = NoHandle, ![i].keypair = 0, ![i].sig = 0]
       /\ UNCHANGED isDecrypting
  ELSE /\ error' = MessageOr(m, "Failed to decrypt result")
       /\ isDecrypting' = FALSE
       /\ decs' = [decs EXCEPT ![i] = IdleDec]

\* getSigner() resolved; next await: contract.getMyResult()
DecryptSignerDone(i) ==
  /\ decs[i].pc = "signer"
  /\ decs' = [decs EXCEPT ![i].pc = "handle"]
  /\ UNCHANGED <<contractVars, initVars, bidVars, sub, timersActive, timersDue,
                 counters, ledgerCalls, sinceConfirm, keyCount,
                 demoVars>>

\* fhevmInstance.generateKeypair(): the SDK returns a keypair it has not
\* returned before
generateKeypair == keyCount + 1

\* variant: the keypair of the previous attempt is kept and used again
AttemptKeypairKept(generated) == IF generated > 1 THEN generated - 1 ELSE generated
\* const keypair = fhevmInstance.generateKeypair(): the keypair of this attempt
AttemptKeypair(generated) == generated

\* contract.getMyResult() settled; on success the keypair and the EIP-712
\* message are made and the next await is signer.signTypedData()
DecryptHandleDone(i) ==
  /\ decs[i].pc = "handle"
  /\ IF getMyResultOk(Me)
     THEN /\ decs' = [decs EXCEPT ![i].pc = "sign", ![i].handle = getMyResult(Me),
                                  ![i].keypair = AttemptKeypair(generateKeypair)]
          /\ keyCount' = generateKeypair
          /\ UNCHANGED <<error, isDecrypting>>
     ELSE DecryptCatch(i, "No bid submitted") /\ UNCHANGED keyCount
  /\ UNCHANGED <<contractVars, initVars, bidAmount, isSubmitting, hasBidSubmitted,
                 canDecrypt, countdown, result, sub, timersActive, timersDue,
                 counters, ledgerCalls, sinceConfirm, demoVars>>

\* signTypedData() resolved with the signature of the EIP-712 message made from
\* keypair.publicKey; userDecrypt is called with the keypair and the signature
DecryptSignDone(i) ==
  /\ decs[i].pc = "sign"
  /\ decs' = [decs EXCEPT ![i].pc = "decrypt", ![i].sig = decs[i].keypair]
  /\ UNCHANGED <<contractVars, initVars, bidVars, sub, timersActive, timersDue,
                 counters, ledgerCalls, sinceConfirm, keyCount,
                 demoVars>>

\* the relayer decrypts a handle for a user the ACL allows on it
GatewayAllows(h, user) == <<h, user>> \in acl /\ <<h, Contract>> \in acl
\* the map userDecrypt resolves with, for the one handle asked
GatewayDecrypt(h) == [x \in {h} |-> h.res]
\* variant: the page compares the bid itself instead of reading the returned map
DecryptedValueRecomputed(decryptedResults, encryptedHandle) ==
  IF encryptedHandle.ct.val > RESERVE_PRICE THEN 1 ELSE 0

\* const decryptedValue = decryptedResults[encryptedHandle]
DecryptedValue(decryptedResults, encryptedHandle) == decryptedResults[encryptedHandle]

\* userDecrypt() resolved: the rest of the try block and the finally
DecryptSucceed(i) ==
  /\ decs[i].pc = "decrypt"
  /\ GatewayAllows(decs[i].handle, Me)
  /\ result' = DecryptedValue(GatewayDecrypt(decs[i].handle), decs[i].handle)
  /\ canDecrypt' = FALSE
  /\ isDecrypting' = FALSE
  /\ decs' = [decs EXCEPT ![i] = IdleDec]
  /\ UNCHANGED <<contractVars, initVars, bidAmount, isSubmitting, hasBidSubmitted,
                 countdown, error, sub, timersActive, timersDue, counters,
                 ledgerCalls, sinceConfirm, keyCount,
                 demoVars>>

\* an await of handleDecryptResult rejected with message m
DecryptFail(i, m) ==
  /\ decs[i].pc \in {"signer", "handle", "sign", "decrypt"}
  /\ failCount < MaxDecryptFailures
  /\ failCount' = failCount + 1
  /\ DecryptCatch(i, m)
  /\ UNCHANGED <<contractVars, initVars, bidAmount, isSubmitting, hasBidSubmitted,
                 canDecrypt, countdown, result, sub, timersActive, timersDue,
                 encCount, ledgerCalls, sinceConfirm, keyCount,
                 demoVars>>

\* fhevmInstance.userDecrypt() rejected with message m
UserDecryptFail(i, m) == decs[i].pc = "decrypt" /\ DecryptFail(i, m)

\* the backoff setTimeout fired: `return handleDecryptResult(retryCount + 1)` runs
\* the inner call up to its first await (setIsDecrypting(true), setError(null)),
\* then the finally of the outer call runs (setIsDecrypting(false))
RetryResume(i) ==
  /\ decs[i].pc = "backoff" /\ decs[i].wait = 0
  /\ error' = Null
  /\ isDecrypting' = FALSE
  /\ decs' = [decs EXCEPT ![i].pc = "signer", ![i].retryCount = @ + 1]
  /\ UNCHANGED <<contractVars, initVars, bidAmount, isSubmitting, hasBidSubmitted,
                 canDecrypt, countdown, result, sub, timersActive, timersDue,
                 counters, ledgerCalls, sinceConfirm, keyCount,
                 demoVars>>

\* "Try Again" (rendered with the result): handleTryAgain
handleTryAgain ==
  /\ MainRendered /\ result # NoResult
  /\ bidAmount' = <<>>
  /\ hasBidSubmitted' = FALSE
  /\ canDecrypt' = FALSE
  /\ countdown' = 0
  /\ result' = NoResult
  /\ error' = Null
  /\ UNCHANGED <<contractVars, initVars, isSubmitting, isDecrypting, procVars>>

Next ==
  \/ WalletClientReady
  \/ RunInitEffect
  \/ InitFhevmDone
  \/ \E m \in SubmitErrors : InitFhevmFail(m)
  \/ ReloadPage
  \/ \E s \in Inputs : EnterBid(s)
  \/ ClickSubmit
  \/ EncryptDone
  \/ SubmitSignerDone
  \/ TxSent
  \/ ChainMine
  \/ TxWaitDone
  \/ \E m \in SubmitErrors : SubmitFail(m)
  \/ TimerFire
  \/ Tick
  \/ ClickDecrypt
  \/ \E i \in Slots : DecryptSignerDone(i)
  \/ \E i \in Slots : DecryptHandleDone(i)
  \/ \E i \in Slots : DecryptSignDone(i)
  \/ \E i \in Slots : DecryptSucceed(i)
  \/ \E i \in Slots, m \in DecryptErrors : DecryptFail(i, m)
  \/ \E i \in Slots : RetryResume(i)
  \/ handleTryAgain

Spec == Init /\ [][Next]_vars

\* ------------------------------------ the page with a wallet that switches
\* the user selects another account in the wallet while no submission and no
\* decryption request is in flight: useAccount gives the new address,
\* useWalletClient gives the client of the new account in the same render or
\* later; the dependencies of the initialisation effect change
AccountChanged ==
  /\ walletClient
  /\ sub.pc = "idle" /\ \A i \in Slots : decs[i].pc = "idle"
  /\ address' \in Addresses \ {address}
  /\ walletClient' \in BOOLEAN
  /\ effectPending' = TRUE
  /\ UNCHANGED <<contractVars, fhevmInstance, isInitializing, initError,
                 isInitializingRef, initInFlight, instancesCreated, bidVars,
                 procVars>>

\* the calls to the ledger, the signer and the gateway succeed here: their
\* failures and the retries are in Spec
NextWallet ==
  \/ WalletClientReady
  \/ RunInitEffect
  \/ InitFhevmDone
  \/ \E m \in SubmitErrors : InitFhevmFail(m)
  \/ ReloadPage
  \/ AccountChanged
  \/ \E s \in Inputs : EnterBid(s)
  \/ ClickSubmit
  \/ EncryptDone
  \/ SubmitSignerDone
  \/ TxSent
  \/ ChainMine
  \/ TxWaitDone
  \/ TimerFire
  \/ Tick
  \/ ClickDecrypt
  \/ \E i \in Slots : DecryptSignerDone(i)
  \/ \E i \in Slots : DecryptHandleDone(i)
  \/ \E i \in Slots : DecryptSignDone(i)
  \/ \E i \in Slots : DecryptSucceed(i)
  \/ handleTryAgain

SpecWallet == Init /\ [][NextWallet]_vars

\* -------------------------------------- the page that bids again and again
\* one bid value, typed up to MaxRebid times; of the external calls only the
\* gateway's userDecrypt fails, and only with the relayer's 500
RebidInputs == { <<"1", "0", "0", "0">> }

NextRebid ==
  \/ WalletClientReady
  \/ RunInitEffect
  \/ InitFhevmDone
  \/ \E s \in RebidInputs : EnterBidWithin(s, MaxRebid)
  \/ ClickSubmitWithin(MaxRebid)
  \/ EncryptDone
  \/ SubmitSignerDone
  \/ TxSent
  \/ ChainMine
  \/ TxWaitDone
  \/ TimerFire
  \/ Tick
  \/ ClickDecrypt
  \/ \E i \in Slots : DecryptSignerDone(i)
  \/ \E i \in Slots : DecryptHandleDone(i)
  \/ \E i \in Slots : DecryptSignDone(i)
  \/ \E i \in Slots : DecryptSucceed(i)
  \/ \E i \in Slots, m \in Messages500 : UserDecryptFail(i, m)
  \/ \E i \in Slots : RetryResume(i)
  \/ handleTryAgain

SpecRebid == Init /\ [][NextRebid]_vars

\* ------------------------------------------- the contract called directly
\* bids that any address may encrypt and send to the contract itself
ContractBids == {999, 1000, 1001}
ContractNonces == 1..2
ContractInputs ==
  {EncryptedInput(v, u, n) : v \in ContractBids, u \in Addresses, n \in ContractNonces}

\* a submitBid transaction from any address, with any handle and any proof
\* (a transaction whose input verification fails reverts and changes nothing)
CallSubmitBid(a, x, y) ==
  /\ blockTime < MaxContractTx
  /\ submitBid(a, x.handle, y.inputProof)
  /\ UNCHANGED <<initVars, bidVars, procVars>>

\* a getMyResult call from address a
CallGetMyResult(a) ==
  /\ callReturn' = IF getMyResultOk(a)
                   THEN Returned("getMyResult", a, getMyResult(a), 0)
                   ELSE Reverted("getMyResult", a, NoBidSubmitted)
  /\ UNCHANGED <<storage, initVars, bidVars, procVars>>

\* a getBidTimestamp(user) call from any address
CallGetBidTimestamp(user) ==
  /\ callReturn' = IF getBidTimestampOk(user)
                   THEN Returned("getBidTimestamp", user, NoHandle, getBidTimestamp(user))
                   ELSE Reverted("getBidTimestamp", user, NoBidSubmitted)
  /\ UNCHANGED <<storage, initVars, bidVars, procVars>>

NextContract ==
  \/ \E a \in Addresses, x \in ContractInputs, y \in ContractInputs : CallSubmitBid(a, x, y)
  \/ \E a \in Addresses : CallGetMyResult(a)
  \/ \E a \in Addresses : CallGetBidTimestamp(a)

SpecContract == Init /\ [][NextContract]_vars

\* ------------------------------------------ the page with the demo guide
\* The guide's handleSubmit and handleDecrypt replace the page's handlers; the
\* parts the guide leaves out ("...") are the page's: the bid is encrypted as
\* handleSubmitBid does, the decrypt button is the page's button, the real
\* decryption gives the result the contract stored, the reset is handleTryAgain.

\* bids typed on the demo page
DemoInputs == { <<"8","8","8">>, <<"9","9","9">>, <<"1","0","0","0">> }
\* String(SECRET_NUMBER)
SecretNumberString == <<"8","8","8">>

\* checkDemoMode(): the URL parameter, the DEMO_MODE item and the environment
\* are inputs of the page; any of them may say 'true'
checkDemoMode(urlDemo, storedDemo, envDemo) == urlDemo \/ storedDemo \/ envDemo

\* the guide's calculateMockResult (number guessing example)
calculateMockResult(savedValue) ==
  IF savedValue.has /\ savedValue.val = SecretNumberString THEN 1 ELSE 0

getItem(key) == localStorage[key]

\* variant: removeItem that leaves the item in place
removeItemKept(key) == localStorage
\* localStorage.removeItem(key)
removeItem(key) == [localStorage EXCEPT ![key] = NoItem]

\* variant: the plaintext is saved whatever the mode
SavePlaintextAnyMode(user, plaintextValue) ==
  [localStorage EXCEPT ![LastGuessKey(user)] = Item(plaintextValue)]
\* if (demoMode) localStorage.setItem(`lastGuess_${userAddress}`, plaintextValue)
SavePlaintext(user, plaintextValue) ==
  IF demoMode
  THEN [localStorage EXCEPT ![LastGuessKey(user)] = Item(plaintextValue)]
  ELSE localStorage

InitDemo ==
  /\ reservePrice = RESERVE_PRICE
  /\ bidResults = [a \in Addresses |-> NoHandle]
  /\ hasBid = [a \in Addresses |-> FALSE]
  /\ bidTimestamp = [a \in Addresses |-> 0]
  /\ acl = {}
  /\ blockTime = 0
  /\ callReturn = NoCall
  /\ address = "a1"
  /\ walletClient = TRUE
  /\ effectPending = FALSE
  /\ fhevmInstance = TRUE
  /\ isInitializing = FALSE
  /\ initError = Null
  /\ isInitializingRef = TRUE
  /\ initInFlight = 0
  /\ instancesCreated = 1
  /\ bidAmount = <<>>
  /\ isSubmitting = FALSE
  /\ isDecrypting = FALSE
  /\ hasBidSubmitted = FALSE
  /\ canDecrypt = FALSE
  /\ countdown = 0
  /\ result = NoResult
  /\ error = Null
  /\ sub = IdleSub
  /\ decs = [i \in Slots |-> IdleDec]
  /\ timersActive = 0
  /\ timersDue = 0
  /\ encCount = 0
  /\ failCount = 0
  /\ ledgerCalls = {}
  /\ sinceConfirm = -1
  /\ keyCount = 0
  /\ \E u \in BOOLEAN, l \in BOOLEAN, e \in BOOLEAN : demoMode = checkDemoMode(u, l, e)
  /\ localStorage = [k \in StorageKeys |-> NoItem]
  /\ demo = IdleDemo

\* handleSubmit up to `await tx.wait()`: the bid is encrypted, the transaction
\* is sent and the ledger executes it
DemoSubmitSend(s) ==
  /\ demo.sub = "idle"
  /\ encCount < MaxEncrypt
  /\ encCount' = encCount + 1
  /\ LET enc == EncryptedInput(parseInt(s), Me, encCount + 1)
     IN submitBid(Me, enc.handle, enc.inputProof)
  /\ demo' = [demo EXCEPT !.sub = "wait", !.value = s]
  /\ UNCHANGED <<initVars, bidVars, sub, decs, timersActive, timersDue, failCount,
                 ledgerCalls, sinceConfirm, keyCount, demoMode, localStorage>>

\* tx.wait() resolved: the plaintext is saved in demo mode, decryption is
\* allowed at once
DemoSubmitDone ==
  /\ demo.sub = "wait"
  /\ localStorage' = SavePlaintext(Me, demo.value)
  /\ canDecrypt' = TRUE
  /\ demo' = [demo EXCEPT !.sub = "idle", !.value = <<>>]
  /\ UNCHANGED <<contractVars, initVars, bidAmount, isSubmitting, isDecrypting,
                 hasBidSubmitted, countdown, result, error, sub, decs, timersActive,
                 timersDue, counters, ledgerCalls, sinceConfirm, keyCount, demoMode>>

\* tx.wait() rejected: handleSubmit has no catch, nothing is set
DemoSubmitFail ==
  /\ demo.sub = "wait"
  /\ demo' = [demo EXCEPT !.sub = "idle", !.value = <<>>]
  /\ UNCHANGED <<contractVars, initVars, bidVars, sub, decs, timersActive, timersDue,
                 counters, ledgerCalls, sinceConfirm, keyCount, demoMode, localStorage>>

\* click on the decrypt button: handleDecrypt up to its first await (the race
\* in demo mode, decryptPromise otherwise)
DemoClickDecrypt ==
  /\ DecryptButtonEnabled
  /\ demo.pc = "idle"
  /\ isDecrypting' = TRUE
  /\ demo' = [demo EXCEPT !.pc = IF demoMode THEN "race" ELSE "real",
                          !.handle = getMyResult(Me),
                          !.timeout = IF demoMode THEN DEMO_TIMEOUT ELSE 0,
                          !.realPending = TRUE, !.ended = "none"]
  /\ UNCHANGED <<contractVars, initVars, bidAmount, isSubmitting, hasBidSubmitted,
                 canDecrypt, countdown, result, error, sub, decs, timersActive,
                 timersDue, counters, ledgerCalls, sinceConfirm, keyCount, demoMode,
                 localStorage>>

\* decryptPromise resolved while handleDecrypt awaits it: setResult, finally
DemoRealResolve ==
  /\ demo.pc \in {"race", "real"} /\ demo.realPending
  /\ GatewayAllows(demo.handle, Me)
  /\ result' = DecryptedValue(GatewayDecrypt(demo.handle), demo.handle)
  /\ isDecrypting' = FALSE
  /\ demo' = [demo EXCEPT !.pc = "idle", !.timeout = 0, !.realPending = FALSE,
                          !.ended = "real"]
  /\ UNCHANGED <<contractVars, initVars, bidAmount, isSubmitting, hasBidSubmitted,
                 canDecrypt, countdown, error, sub, decs, timersActive, timersDue,
                 counters, ledgerCalls, sinceConfirm, keyCount, demoMode, localStorage>>

\* variant: the mock path is taken whatever the mode
DemoCatchesAnyMode(m) == Includes500(m)
\* the outer catch of handleDecrypt takes the mock path for error message m
DemoCatchesWithMock(m) == demoMode /\ Includes500(m)

\* decryptPromise rejected with message m while handleDecrypt awaits it: the
\* inner catch rethrows (m is not 'TIMEOUT'), the outer catch either starts
\* the mock delay or sets the error and the finally runs
DemoRealReject(m) ==
  /\ demo.pc \in {"race", "real"} /\ demo.realPending
  /\ IF DemoCatchesWithMock(m)
     THEN /\ demo' = [demo EXCEPT !.pc = "catchdelay", !.delay = MOCK_DELAY,
                                  !.timeout = 0, !.realPending = FALSE]
          /\ UNCHANGED <<error, isDecrypting>>
     ELSE /\ error' = m
          /\ isDecrypting' = FALSE
          /\ demo' = [demo EXCEPT !.pc = "idle", !.timeout = 0, !.realPending = FALSE,
                                  !.ended = "error"]
  /\ UNCHANGED <<contractVars, initVars, bidAmount, isSubmitting, hasBidSubmitted,
                 canDecrypt, countdown, result, sub, decs, timersActive, timersDue,
                 counters, ledgerCalls, sinceConfirm, keyCount, demoMode, localStorage>>

\* the race timeout fired first: the inner catch starts the mock delay
DemoTimeout ==
  /\ demo.pc = "race" /\ demo.timeout = 0
  /\ demo' = [demo EXCEPT !.pc = "mockdelay", !.delay = MOCK_DELAY]
  /\ UNCHANGED <<contractVars, initVars, bidVars, sub, decs, timersActive, timersDue,
                 counters, ledgerCalls, sinceConfirm, keyCount, demoMode, localStorage>>

\* the mock delay is over: the saved value is read, the mock result is set, the
\* saved value is removed, the finally runs
DemoMockDone ==
  /\ demo.pc \in {"mockdelay", "catchdelay"} /\ demo.delay = 0
  /\ result' = calculateMockResult(getItem(LastGuessKey(Me)))
  /\ localStorage' = removeItem(LastGuessKey(Me))
  /\ isDecrypting' = FALSE
  /\ demo' = [demo EXCEPT !.pc = "idle", !.ended = "mock"]
  /\ UNCHANGED <<contractVars, initVars, bidAmount, isSubmitting, hasBidSubmitted,
                 canDecrypt, countdown, error, sub, decs, timersActive, timersDue,
                 counters, ledgerCalls, sinceConfirm, keyCount, demoMode>>

\* variant: the late value is applied to the page
DemoRealSettlesLateApplied ==
  /\ demo.pc \notin {"race", "real"} /\ demo.realPending
  /\ demo' = [demo EXCEPT !.realPending = FALSE]
  /\ result' = DecryptedValue(GatewayDecrypt(demo.handle), demo.handle)
  /\ UNCHANGED <<contractVars, initVars, bidAmount, isSubmitting, isDecrypting,
                 hasBidSubmitted, canDecrypt, countdown, error, sub, decs,
                 timersActive, timersDue, counters, ledgerCalls, sinceConfirm,
                 keyCount, demoMode, localStorage>>
\* decryptPromise settles after the race was lost: nobody awaits it any more
DemoRealSettlesLate ==
  /\ demo.pc \notin {"race", "real"} /\ demo.realPending
  /\ demo' = [demo EXCEPT !.realPending = FALSE]
  /\ UNCHANGED <<contractVars, initVars, bidVars, sub, decs, timersActive, timersDue,
                 counters, ledgerCalls, sinceConfirm, keyCount, demoMode, localStorage>>

\* the saved plaintext is removed outside this page: localStorage belongs to
\* the origin, so another tab of the page running its fallback for the same
\* address removes it, and so does the user clearing the site's storage
StorageItemRemoved ==
  /\ localStorage[LastGuessKey(Me)].has
  /\ localStorage' = removeItem(LastGuessKey(Me))
  /\ UNCHANGED <<contractVars, initVars, bidVars, sub, decs, timersActive, timersDue,
                 counters, ledgerCalls, sinceConfirm, keyCount, demoMode, demo>>

\* a second passes for the race timeout and the mock delay
DemoTick ==
  /\ \/ demo.pc = "race" /\ demo.timeout > 0
     \/ demo.pc \in {"mockdelay", "catchdelay"} /\ demo.delay > 0
  /\ demo' = [demo EXCEPT !.timeout = IF @ > 0 THEN @ - 1 ELSE 0,
                          !.delay = IF @ > 0 THEN @ - 1 ELSE 0]
  /\ UNCHANGED <<contractVars, initVars, bidVars, sub, decs, timersActive, timersDue,
                 counters, ledgerCalls, sinceConfirm, keyCount, demoMode, localStorage>>

NextDemo ==
  \/ \E s \in DemoInputs : DemoSubmitSend(s)
  \/ DemoSubmitDone
  \/ DemoSubmitFail
  \/ DemoClickDecrypt
  \/ DemoRealResolve
  \/ \E m \in DecryptErrors : DemoRealReject(m)
  \/ DemoTimeout
  \/ DemoMockDone
  \/ DemoRealSettlesLate
  \/ DemoTick
  \/ StorageItemRemoved
  \/ handleTryAgain

SpecDemo == InitDemo /\ [][NextDemo]_vars

\* ------------------------------------------------------------------ claims
\* "You Won!" is rendered when result === 1, "Bid Too Low" for any other result
Outcome(r) == IF r = 1 THEN "Won" ELSE "Lost"

AttemptPcs == {"signer", "handle", "sign", "decrypt"}
AttemptsInFlight == {i \in Slots : decs[i].pc \in AttemptPcs}

C2_ReserveBidLoses ==
  \A a \in Addresses : hasBid[a] =>
    (bidResults[a].res = 1 <=> bidResults[a].ct.val > RESERVE_PRICE)

\* C3: the accounts allowed on the result stored for an address a are the
\* contract and a, whatever calls the other addresses have made.
C3_OnlyBidderAndContractAllowed ==
  \A a \in Addresses : hasBid[a] =>
    {g \in Addresses \cup {Contract} : <<bidResults[a], g>> \in acl} = {Contract, a}
C3_Witness ==
  /\ \A a \in Addresses : hasBid[a]
  /\ blockTime = MaxContractTx

\* C4: every ledger call made by the page passes a handle returned by the
\* gateway's encrypt for this participant, with the proof of that handle;
\* nothing that encrypt did not return is passed.
C4_LedgerGetsOnlyEncrypted ==
  \A c \in ledgerCalls :
    /\ c.encryptedBid.n \in 1..encCount
    /\ c.encryptedBid.user = Me
    /\ c.proof.proves = c.encryptedBid
C4_Witness == Cardinality(ledgerCalls) = 2 /\ sub.pc = "wait"

\* C5: a submission is started only when no session is in progress: no other
\* submission in flight, no countdown, not ready to decrypt, no decryption in
\* flight, no outcome on display.
SubmitStarts == sub.pc = "idle" /\ sub'.pc = "encrypt"
SessionInProgress ==
  \/ sub.pc # "idle" \/ hasBidSubmitted \/ countdown > 0 \/ timersActive > 0
  \/ canDecrypt \/ isDecrypting \/ result # NoResult
  \/ \E i \in Slots : decs[i].pc # "idle"
C5_SubmitOnlyWhenIdle == [][SubmitStarts => ~SessionInProgress]_vars

\* C6: every value handed to the gateway for encryption is a positive integer
\* and is the value that was typed.
RECURSIVE Pow10(_)
Pow10(n) == IF n <= 0 THEN 1 ELSE 10 * Pow10(n - 1)
IsPositiveInteger(f) ==
  ~f.nan /\ f.m > 0 /\ (f.e >= 0 \/ f.m % Pow10(0 - f.e) = 0)
IntegerOf(f) == IF f.e >= 0 THEN f.m * Pow10(f.e) ELSE f.m \div Pow10(0 - f.e)
C6_EncryptsPositiveIntegerTyped ==
  sub.pc = "encrypt" =>
    /\ IsPositiveInteger(parseFloat(bidAmount))
    /\ sub.val = IntegerOf(parseFloat(bidAmount))

\* C7: the page is never ready to decrypt (canDecrypt) while fewer than 10
\* seconds have passed since the last ledger confirmation.
C7_ReadyOnlyAfterCountdown == canDecrypt => sinceConfirm >= COUNTDOWN_START

\* C8: at most one decryption attempt is in flight at any time.
C8_OneAttemptInFlight == Cardinality(AttemptsInFlight) <= 1

\* C9: when the gateway's decrypt succeeds, the page stores the scalar the
\* gateway returned for the handle this attempt fetched, is no longer ready to
\* decrypt, and shows Won for 1 and Lost for 0.
C9_StoresReturnedScalar ==
  [][\A i \in Slots : DecryptSucceed(i) =>
        /\ result' = GatewayDecrypt(decs[i].handle)[decs[i].handle]
        /\ ~canDecrypt'
        /\ (result' = 1 => Outcome(result') = "Won")
        /\ (result' = 0 => Outcome(result') = "Lost")]_vars
C9_Witness == result = 0 /\ ~canDecrypt /\ hasBidSubmitted /\ bidResults[Me].res = 0

\* C10: while a retry of a decryption request is waiting or running, the busy
\* flag isDecrypting stays true.
C10_BusyDuringRetry ==
  \A i \in Slots :
    (decs[i].pc = "backoff" \/ (decs[i].pc \in AttemptPcs /\ decs[i].retryCount > 0))
      => isDecrypting
\* C11 (as stated): after three consecutive transient failures of one request
\* no fourth gateway decrypt call is made: userDecrypt is never in flight for
\* the attempt of index 3.
C11_NoFourthDecryptCall ==
  \A i \in Slots : decs[i].pc = "decrypt" => decs[i].retryCount < MAX_RETRY
\* C11 (amended): a request makes at most four attempts (the first and three
\* automatic retries, indexes 0..3); when the attempt of index 3 fails with a
\* transient error the request ends at once with that error reported, the busy
\* flag cleared and no outcome set.
C11_FourAttemptsExhaustRetries ==
  /\ [](\A i \in Slots : decs[i].retryCount <= MAX_RETRY)
  /\ [][\A i \in Slots, m \in Messages500 :
          (DecryptFail(i, m) /\ decs[i].retryCount = MAX_RETRY) =>
            /\ decs'[i] = IdleDec
            /\ error' = m
            /\ ~isDecrypting'
            /\ result' = result]_vars
C11_Witness == error \in Messages500 /\ failCount = MAX_RETRY + 1

\* an attempt starts: a click on the decrypt button or the end of a backoff
AttemptStarts ==
  \E i \in Slots : decs[i].pc \in {"idle", "backoff"} /\ decs'[i].pc = "signer"
\* retries were exhausted and nothing has reset the page since: the message of
\* the transient error is on display (only the last branch of the catch sets it)
RetriesExhausted == error \in Messages500

\* C12: once the retries are exhausted (the attempt of index 3 failed with a
\* transient error) no further decryption attempt starts until the session is
\* reset.
C12_NoAttemptAfterExhaustion == [][RetriesExhausted => ~AttemptStarts]_vars

\* C14: a failure whose message does not match '500' is never retried: the
\* request ends in that step with the error reported (the message, or the
\* default text for an empty one), the busy flag cleared, no backoff scheduled
\* and the outcome untouched.
C14_FatalErrorNotRetried ==
  [][\A i \in Slots, m \in DecryptErrors \ Messages500 :
       DecryptFail(i, m) =>
         /\ decs'[i] = IdleDec
         /\ error' = MessageOr(m, "Failed to decrypt result")
         /\ error' # Null /\ error' # ""
         /\ ~isDecrypting'
         /\ result' = result]_vars
C14_Witness == error = "user rejected signing" /\ canDecrypt /\ result = NoResult
\* C16: a submission the ledger rejects or never confirms is not retried:
\* one invocation of handleSubmitBid calls contract.submitBid at most once, and
\* when the call or the wait for the confirmation fails the handler ends with
\* the error reported and without starting a countdown.
C16_RejectedSubmitNotRetried ==
  /\ [](sub.calls <= 1)
  /\ [][\A m \in SubmitErrors :
          (sub.pc \in {"send", "wait"} /\ SubmitFail(m)) =>
            /\ sub' = IdleSub
            /\ error' = MessageOr(m, "Failed to submit bid")
            /\ error' # Null /\ error' # ""
            /\ ~isSubmitting'
            /\ UNCHANGED <<countdown, timersActive, canDecrypt, hasBidSubmitted,
                           ledgerCalls, sinceConfirm>>]_vars
C16_Witness ==
  /\ ledgerCalls # {} /\ ~hasBid[Me]
  /\ error = "transaction failed" /\ sub.pc = "idle"
  /\ countdown = 0 /\ timersActive = 0

\* C17: when encrypt fails the handler ends with the error reported and has
\* made, and makes, no call of contract.submitBid.
C17_EncryptFailureStopsSubmit ==
  /\ [](sub.pc = "encrypt" => sub.calls = 0)
  /\ [][\A m \in SubmitErrors :
          (sub.pc = "encrypt" /\ SubmitFail(m)) =>
            /\ sub' = IdleSub
            /\ error' = MessageOr(m, "Failed to submit bid")
            /\ error' # Null /\ error' # ""
            /\ ~isSubmitting'
            /\ ledgerCalls' = ledgerCalls]_vars
C17_Witness ==
  /\ error = "Failed to submit bid" /\ encCount = 0 /\ ledgerCalls = {}
  /\ sub.pc = "idle" /\ ~isSubmitting
\* C13: every attempt, the automatic retries included, generates a keypair
\* that no earlier attempt had (it is newer than every keypair generated
\* before), has a signature made for that keypair, and passes that keypair and
\* that signature to userDecrypt; no two attempts hold the same keypair.
C13_FreshKeyMaterialPerAttempt ==
  /\ [](\A i, j \in Slots :
          (i # j /\ decs[i].keypair # 0) => decs[i].keypair # decs[j].keypair)
  /\ [](\A i \in Slots : decs[i].pc = "decrypt" =>
          decs[i].keypair # 0 /\ decs[i].sig = decs[i].keypair)
  /\ [][\A i \in Slots :
          (decs[i].pc = "handle" /\ decs'[i].pc = "sign") =>
            /\ decs'[i].keypair > keyCount
            /\ decs'[i].keypair = keyCount'
            /\ decs'[i].sig = 0]_vars
  /\ [][\A i \in Slots : DecryptSignDone(i) =>
          /\ decs'[i].keypair = decs[i].keypair
          /\ decs'[i].sig = decs[i].keypair]_vars
C13_Witness ==
  \E i \in Slots : /\ decs[i].pc = "decrypt" /\ decs[i].retryCount = 2
                   /\ decs[i].keypair = 3 /\ decs[i].sig = 3
\* a failure is on display: the main interface shows an error other than the
\* progress text of a retry
RetryingMessages == {RetryingMessage(k) : k \in 1..MAX_RETRY}
FailureShown == MainRendered /\ error # Null /\ error \notin RetryingMessages
\* "Try Again" is on screen (it is rendered with the result only)
ResetAvailable == MainRendered /\ result # NoResult
\* the bid form is on screen and enabled
SubmitAvailable == MainRendered /\ ~hasBidSubmitted /\ ~isSubmitting

\* C19: whenever a failure is on display the page offers the reset, or accepts
\* a new submission: no failure leaves the page with neither.
C19_FailureLeavesResetOrSubmit == FailureShown => (ResetAvailable \/ SubmitAvailable)

\* C20: Resolved is terminal: while an outcome is on display it does not
\* change (it is only cleared by the reset), and neither a submission nor a
\* decryption attempt starts.
C20_ResolvedIsTerminal ==
  [][result # NoResult =>
       /\ result' \in {result, NoResult}
       /\ ~SubmitStarts
       /\ ~AttemptStarts]_vars
\* C15: in demo mode a failure of the real decryption never ends handleDecrypt
\* with the error: whatever the error, the fallback gives an outcome.
C15_DemoFailureFallsBack == demoMode => demo.ended # "error"

\* C18: the reset leaves no outcome, no error, no countdown, no ready flag, no
\* submitted flag, no typed amount, and no plaintext saved for the participant
\* in the local store.
C18_ResetClearsSession ==
  [][handleTryAgain =>
       /\ result' = NoResult /\ error' = Null /\ countdown' = 0
       /\ ~canDecrypt' /\ ~hasBidSubmitted' /\ bidAmount' = <<>>
       /\ ~localStorage'[LastGuessKey(Me)].has]_vars
\* C21: every failure that ends an operation leaves a non-empty reason on
\* display: a failed initialisation sets initError, a failed submission and a
\* decryption request that ends without its outcome set error, each to a text
\* that is neither null nor empty.
C21_FailureLeavesReason ==
  [][/\ \A m \in SubmitErrors :
          /\ InitFhevmFail(m) => (initError' # Null /\ initError' # "")
          /\ SubmitFail(m) => (error' # Null /\ error' # "")
     /\ \A i \in Slots :
          (decs[i].pc \in AttemptPcs /\ decs'[i] = IdleDec /\ ~DecryptSucceed(i))
            => (error' # Null /\ error' # "")]_vars
C21_Witness ==
  /\ error = "Failed to decrypt result" /\ result = NoResult /\ ~isDecrypting
  /\ \A i \in Slots : decs[i].pc = "idle"
\* C22: with demo mode disabled the outcome is only ever set from the value
\* the gateway's decryption returned: no mock delay is ever entered, the page
\* never ends on the mock path, and a step that sets an outcome is the real
\* decryption resolving with the stored result of the handle.
C22_NoFallbackUnlessConfigured ==
  /\ [](~demoMode => /\ demo.pc \notin {"race", "mockdelay", "catchdelay"}
                     /\ demo.ended # "mock")
  /\ [][(~demoMode /\ result' # result /\ result' # NoResult)
          => /\ demo.pc = "real" /\ demo.realPending
             /\ GatewayAllows(demo.handle, Me)
             /\ result' = GatewayDecrypt(demo.handle)[demo.handle]]_vars
C22_Witness ==
  ~demoMode /\ demo.ended = "error" /\ error \in Messages500 /\ result = NoResult

\* C23: the real decryption is raced against a timeout of 5 time units and the
\* first to settle decides: a real value that arrives while the race is on is
\* the outcome, a timeout that fires first leads to the mock outcome, and a real
\* decryption that settles after the fallback path was taken changes neither
\* the outcome nor the error nor any other state of the page.
C23_LateSettlementIgnored ==
  /\ [](demo.timeout \in 0..DEMO_TIMEOUT)
  /\ [][/\ DemoRealSettlesLate
            => UNCHANGED <<contractVars, initVars, bidVars, localStorage, demoMode>>
               /\ demo'.pc = demo.pc /\ demo'.ended = demo.ended
               /\ demo'.delay = demo.delay
        /\ (demo.pc = "race" /\ demo'.pc = "mockdelay")
            => demo.timeout = 0 /\ UNCHANGED <<result, error, isDecrypting>>
        /\ (demo.pc = "race" /\ demo'.pc = "idle")
            => demo.realPending /\ demo'.ended \in {"real", "error"}
        /\ (demo.pc = "mockdelay" /\ demo'.pc = "idle")
            => /\ demo'.ended = "mock"
               /\ result' = calculateMockResult(localStorage[LastGuessKey(Me)])]_vars
C23_Witness ==
  demo.pc = "mockdelay" /\ ~demo.realPending

\* C24: whenever the fallback produces an outcome, the cached plaintext is
\* removed in the same step, so a cached value is read by at most one
\* fallback evaluation.
C24_CachedPlaintextSingleUse ==
  [][(demo.pc \in {"mockdelay", "catchdelay"} /\ demo'.pc = "idle")
       => /\ result' = calculateMockResult(localStorage[LastGuessKey(Me)])
          /\ \A k \in StorageKeys : ~localStorage'[k].has]_vars
C24_Witness ==
  demoMode /\ demo.ended = "mock" /\ result = 1 /\ ~localStorage[LastGuessKey(Me)].has

FallbackResolves == demo.pc \in {"mockdelay", "catchdelay"} /\ demo'.pc = "idle"

\* C25: for every bid value v the fallback's outcome equals the outcome of the
\* contract's comparison of v with the reserve price of 1000, v = 1000
\* included: whenever the fallback evaluates a saved bid, the outcome it sets
\* is the one submitBid computes for that value.
C25_FallbackEqualsRealCompare ==
  [][(FallbackResolves /\ localStorage[LastGuessKey(Me)].has)
       => result' = CompareBid(parseInt(localStorage[LastGuessKey(Me)].val),
                               RESERVE_PRICE)]_vars

\* C26: a resolution by the fallback cannot be told from a real one on the
\* page: when the fallback resolves the request for the bid the contract holds,
\* it leaves what the real decryption of the same handle would have left: the
\* same outcome, busy flag cleared, error and the other displayed fields as
\* they were.
C26_FallbackLooksReal ==
  [][(/\ FallbackResolves
      /\ localStorage[LastGuessKey(Me)].has
      /\ hasBid[Me] /\ demo.handle = bidResults[Me]
      /\ parseInt(localStorage[LastGuessKey(Me)].val) = demo.handle.ct.val)
       => /\ result' = DecryptedValue(GatewayDecrypt(demo.handle), demo.handle)
          /\ isDecrypting' = FALSE
          /\ UNCHANGED <<error, canDecrypt, hasBidSubmitted, countdown, bidAmount,
                         isSubmitting>>]_vars
\* C27: resetting the session cancels any running countdown or backoff timer:
\* right after Try Again no interval is running, no interval callback is due
\* and no request waits in a retry backoff, so that no timer of the earlier
\* session can set canDecrypt, change the countdown or start a retry.
C27_ResetCancelsTimers ==
  [][handleTryAgain
       => /\ timersActive' = 0 /\ timersDue' = 0
          /\ \A i \in Slots : decs'[i].pc # "backoff"]_vars
\* C30: getMyResult and getBidTimestamp revert with 'No bid submitted' for an
\* address that has never submitted a bid and return the stored handle and the
\* stored timestamp for one that has; a call that reverts, like one that
\* returns, changes nothing in the contract's storage.  An address has a bid
\* exactly from its first submitBid on.
C30_ReadsRequireBid ==
  /\ [](\A a \in Addresses : hasBid[a] <=> bidTimestamp[a] > 0)
  /\ [][\A a \in Addresses :
          /\ CallGetMyResult(a)
               => /\ UNCHANGED storage
                  /\ IF hasBid[a]
                     THEN callReturn'.ok /\ callReturn'.handle = bidResults[a]
                     ELSE ~callReturn'.ok /\ callReturn'.reason = "No bid submitted"
          /\ CallGetBidTimestamp(a)
               => /\ UNCHANGED storage
                  /\ IF hasBid[a]
                     THEN callReturn'.ok /\ callReturn'.time = bidTimestamp[a]
                     ELSE ~callReturn'.ok /\ callReturn'.reason = "No bid submitted"
          /\ hasBid[a] => hasBid'[a]
          /\ (~hasBid[a] /\ hasBid'[a])
               => \E x \in ContractInputs, y \in ContractInputs : CallSubmitBid(a, x, y)
          /\ (\E x \in ContractInputs, y \in ContractInputs : CallSubmitBid(a, x, y))
               => hasBid'[a]]_vars
C30_Witness ==
  /\ callReturn.fn = "getBidTimestamp" /\ ~callReturn.ok
  /\ callReturn.reason = "No bid submitted"
  /\ \E a \in Addresses : hasBid[a] /\ a # callReturn.arg
\* C29: a confirmed submission sets the countdown to 10; every callback of the
\* interval finds a countdown of at least 1 and lowers it by one; the callback
\* that brings it to 0 is the tenth after the confirmation, it stops its
\* interval and sets canDecrypt, and no earlier callback does either; the
\* countdown is never negative.
C29_CountdownRunsTenTicks ==
  /\ [](countdown \in 0..COUNTDOWN_START)
  /\ [][/\ TxWaitDone => countdown' = COUNTDOWN_START
        /\ TimerFire
             => /\ countdown >= 1 /\ countdown' = countdown - 1
                /\ IF countdown' = 0
                   THEN /\ sinceConfirm = COUNTDOWN_START
                        /\ canDecrypt' /\ timersActive' = timersActive - 1
                   ELSE UNCHANGED <<canDecrypt, timersActive>>]_vars
\* C31: a submitBid call by address a changes only a's entries of bidResults,
\* hasBid and bidTimestamp: the three entries of every other address and the
\* reserve price are left as they were, whatever the order in which different
\* addresses call.
C31_SubmitBidTouchesOnlySender ==
  [][\A a \in Addresses :
       (\E x \in ContractInputs, y \in ContractInputs : CallSubmitBid(a, x, y))
         => /\ reservePrice' = reservePrice
            /\ \A b \in Addresses \ {a} :
                 /\ bidResults'[b] = bidResults[b]
                 /\ hasBid'[b] = hasBid[b]
                 /\ bidTimestamp'[b] = bidTimestamp[b]]_vars
C31_Witness ==
  /\ \A a \in Addresses : hasBid[a]
  /\ \E a \in Addresses, b \in Addresses :
       a # b /\ bidTimestamp[a] < bidTimestamp[b] /\ bidResults[a].ct.val # bidResults[b].ct.val
\* C32: a participant may bid again: each executed submitBid of the page
\* replaces the stored result and timestamp by those of that bid, and an
\* outcome the page displays is the result stored for the latest bid:
\* a session that was reset and bids again never displays the outcome of an
\* earlier bid.
C32_NewBidNewOutcome ==
  [][/\ ChainMine
          => /\ bidResults'[Me].ct = SubmitArgs(sub).encryptedBid
             /\ bidResults'[Me].res = CompareBid(SubmitArgs(sub).encryptedBid.val, reservePrice)
             /\ bidTimestamp'[Me] = blockTime'
     /\ \A i \in Slots :
          DecryptSucceed(i) => result' = bidResults[Me].res]_vars
\* C33: the session belongs to one identity: the ledger result query of a
\* decryption request is made for the address that submitted the bid of the
\* current session, that is the address whose bid is the latest the ledger
\* executed; the session of one address is not acted on after the connected
\* address has changed.
C33_QueryForSessionBidder ==
  [][\A i \in Slots :
       DecryptHandleDone(i) => (hasBid[Me] /\ bidTimestamp[Me] = blockTime)]_vars
\* C34: in every reachable state at most one countdown interval is running,
\* and canDecrypt is never true while the countdown is above 0.
C34_OneTimerNotReadyEarly ==
  /\ timersActive <= 1
  /\ ~(canDecrypt /\ countdown > 0)
\* C35: a decryption request makes at most 4 gateway calls (attempts 0..3);
\* the busy flag is cleared only in a step after which the request neither
\* waits for a retry nor runs one; when a request ends the busy flag is false
\* and exactly one of outcome and error is set.
C35_RequestEndsOnceAndIdle ==
  [][\A i \in Slots :
       /\ decs'[i].retryCount <= MAX_RETRY
       /\ (isDecrypting /\ ~isDecrypting' /\ decs[i].pc # "idle") => decs'[i].pc = "idle"
       /\ (decs[i].pc \in AttemptPcs /\ decs'[i] = IdleDec)
            => /\ ~isDecrypting'
               /\ (result' # NoResult) # (error' # Null)]_vars
\* C36: an automatic retry is triggered only by a failure of the gateway's
\* userDecrypt call: a request that is fetching the result handle from the
\* ledger or waiting for the participant's signature never goes into a retry
\* backoff; its failure ends the request with an error.
C36_RetryOnlyAfterGatewayFailure ==
  [][\A i \in Slots :
       decs[i].pc \in {"handle", "sign"}
         => /\ decs'[i].pc # "backoff"
            /\ (\E m \in DecryptErrors : DecryptFail(i, m))
                 => (decs'[i] = IdleDec /\ error' # Null /\ ~isDecrypting')]_vars
\* C37: the fallback produces an outcome only from a cached plaintext of the
\* connected address: when localStorage holds no value under its key, the
\* fallback path sets no Won/Lost result.
C37_NoOutcomeWithoutCache ==
  [][(FallbackResolves /\ ~localStorage[LastGuessKey(Me)].has)
       => result' \notin {0, 1}]_vars
\* C38: whatever the order of the wallet's connection, address and client
\* changes, at most one invocation of initFhevm is in flight and at most one
\* gateway instance is created per page load; a failed initialisation
\* releases isInitializingRef, and the next trigger with a wallet client
\* starts an initialisation again
C38_SingleInitAndRelease ==
  [][/\ initInFlight' <= 1
     /\ instancesCreated' <= 1
     /\ (\E m \in SubmitErrors : InitFhevmFail(m)) =>
          (~isInitializingRef' /\ initInFlight' = 0)
     /\ (RunInitEffect /\ initError # Null /\ walletClient /\ ~fhevmInstance) =>
          (initInFlight' = 1 /\ isInitializingRef' /\ initError' = Null)]_vars

\* the account changed while the initialisation was in flight: the effect is
\* about to run again with the flag set
C38_Witness ==
  /\ initInFlight = 1 /\ isInitializingRef /\ ~fhevmInstance
  /\ effectPending /\ walletClient /\ address # "a1"

====
